---- MODULE Spec2Model ----
(***************************************************************************)
(* Model of analysis/pRF_utilities.py (py_pRF_mapping): the Gaussian       *)
(* kernel generator funcGauss, the double-gamma HRF generator funcHrf and  *)
(* the two parallel workers funcConvPar and funcPrfTc, which put their     *)
(* results on a shared queue that a coordinator drains.                    *)
(*                                                                         *)
(* Floating point values that the integers cannot hold are kept symbolic:  *)
(*   - a Gaussian cell exp(-num/den)/(pi*den) is the record [num, den],    *)
(*     and nan when den = 0 (numpy divides by zero without raising);       *)
(*   - a sample of the HRF is its class: "zero", "pos", "fin" (finite, of  *)
(*     either sign), "inf", "nan".                                         *)
(* Stimulus intensities and HRF samples handed to funcConvPar are          *)
(* integers, on which numpy's convolution is exact.                        *)
(***************************************************************************)
EXTENDS Integers, Sequences, FiniteSets, TLC

\* ------------------------------------------------------------------ bounds
\* Largest number of pixels handed to the convolution stage.
MaxPix == 3
\* Largest number of parameter combinations in the grid.
MaxMdl == 3
\* Largest number of volumes (varNumVol, and the stimulus' time axis).
MaxVol == 2
\* Largest side of the visual-space grid checked for funcGauss.
MaxSize == 3
\* Largest repetition time (in whole seconds) checked for funcHrf.
MaxTr == 13
\* Model parameters are multiples of 1/Resolution (0.3 is 3, 0.5 is 5).
Resolution == 10

\* ------------------------------------------------------- program constants
\* np.zeros([100, 1]).flatten(): the number of zeros appended per iteration.
PadLen == 100
\* Numerators of the gamma shape parameters 6.0 / varTr and 12.0 / varTr.
HrfPeakNum == 6
HrfUndrNum == 12

VARIABLES
    \* funcGauss called once as a function
    gIn, gOut,
    \* funcHrf called once as a function
    hIn, hOut,
    \* the convolution stage: caller's data, one funcConvPar per chunk
    aryPngData, vecHrfArg, varNumVolC, chnkC, pcC, idxPix, vecHrf, aryPixConv,
    queOutC, lstConv, aryConvAll,
    \* the time course stage: caller's data, one funcPrfTc per chunk
    aryMdlParams, tplVslSpcHighSze, varNumVolP, aryPngDataHigh, chnkP, pcP,
    idxMdl, aryOut, queOutP, lstPrfTc, aryPrfTc

gaussVars == <<gIn, gOut>>
hrfVars == <<hIn, hOut>>
convVars == <<aryPngData, vecHrfArg, varNumVolC, chnkC, pcC, idxPix, vecHrf,
              aryPixConv, queOutC, lstConv, aryConvAll>>
prfVars == <<aryMdlParams, tplVslSpcHighSze, varNumVolP, aryPngDataHigh, chnkP,
             pcP, idxMdl, aryOut, queOutP, lstPrfTc, aryPrfTc>>
vars == <<gaussVars, hrfVars, convVars, prfVars>>

\* ----------------------------------------------------------------- helpers
Min(a, b) == IF a < b THEN a ELSE b
Max(a, b) == IF a < b THEN b ELSE a

\* np.square
Square(v) == v * v

\* The sum of f over the integers lo..hi.
RECURSIVE SumRange(_, _, _)
SumRange(f, lo, hi) == IF hi < lo THEN 0 ELSE f[hi] + SumRange(f, lo, hi - 1)

\* The sum of f over the finite set S.
RECURSIVE SumSet(_, _)
SumSet(f, S) ==
    IF S = {} THEN 0
    ELSE LET e == CHOOSE x \in S : TRUE IN f[e] + SumSet(f, S \ {e})

\* np.zeros(n) as a one-dimensional array
Zeros(n) == [k \in 1..n |-> 0]

\* ---------------------------------------------------------------- funcGauss
\* sp.mgrid[0:varSizeX, 0:varSizeY]: two index arrays of shape
\* [varSizeX, varSizeY]; the first holds the index along the first axis, the
\* second the index along the second axis.
Mgrid(n0, n1) ==
    <<[i \in 0..(n0 - 1) |-> [j \in 0..(n1 - 1) |-> i]],
      [i \in 0..(n0 - 1) |-> [j \in 0..(n1 - 1) |-> j]]>>

\* One cell of the Gaussian: exp(-(num / den)) / (pi * den), den = 2 sd^2.
\* With den = 0 numpy yields num/0 = inf or nan, and then 0/0 or nan: nan.
GaussCell(num, den) ==
    IF den = 0 THEN [nan |-> TRUE, num |-> 0, den |-> 0]
    ELSE [nan |-> FALSE, num |-> num, den |-> den]

\* funcGauss: aryY, aryX = mgrid (in that order), then the Gaussian array.
funcGauss(varSizeX, varSizeY, varPosX, varPosY, varSd) ==
    LET grid == Mgrid(varSizeX, varSizeY)
        aryY == grid[1]
        aryX == grid[2]
    IN  [i \in 0..(varSizeX - 1) |-> [j \in 0..(varSizeY - 1) |->
            GaussCell(Square(aryX[i][j] - varPosX) + Square(aryY[i][j] - varPosY),
                      2 * Square(varSd))]]

\* Inputs of one call of funcGauss: grid sizes, an integer centre that may lie
\* outside the grid, a positive standard deviation.
GaussInputs ==
    [W : 1..MaxSize, H : 1..MaxSize, x : -1..MaxSize, y : -1..MaxSize,
     sd : 1..2]

NoGauss == <<>>
GaussIdle == gIn = [W |-> 0, H |-> 0, x |-> 0, y |-> 0, sd |-> 0] /\ gOut = NoGauss

GaussInit == gIn \in GaussInputs /\ gOut = NoGauss

GaussCall ==
    /\ gIn.W > 0
    /\ gOut = NoGauss
    /\ gOut' = <<funcGauss(gIn.W, gIn.H, gIn.x, gIn.y, gIn.sd)>>
    /\ UNCHANGED <<gIn, hrfVars, convVars, prfVars>>

\* ------------------------------------------------------------------ funcHrf
\* The class of gamma.pdf(x, num / tr) for an integer sample point x >= 0:
\* scipy returns nan for a shape <= 0; for a shape a > 0 the density at 0 is
\* inf (a < 1), 1 (a = 1) or 0 (a > 1), and positive and finite at x > 0.
GammaPdf(x, num, tr) ==
    IF tr < 0 THEN "nan"
    ELSE IF x > 0 THEN "pos"
    ELSE IF num < tr THEN "inf"
    ELSE IF num = tr THEN "pos"
    ELSE "zero"

\* vecHrfPeak - varSclUndr * vecHrfUndr on one sample, varSclUndr = 0.35 > 0.
\* At x = 1 the difference is exp(-1) (1/G(a) - 0.35/G(2a)) > 0 for every
\* a > 0; further out the undershoot may dominate: finite, of either sign.
\* (The undershoot's shape is twice the peak's, so undr = "inf" only when
\* peak = "inf".)
HrfCombine(x, peak, undr) ==
    IF peak = "nan" \/ undr = "nan" THEN "nan"
    ELSE IF peak = "inf" /\ undr = "inf" THEN "nan"
    ELSE IF peak = "inf" THEN "inf"
    ELSE IF undr = "zero" THEN peak
    ELSE IF x = 1 THEN "pos"
    ELSE "fin"

\* np.max of a non-empty array of classes: nan propagates, then inf.
NpMax(vec) ==
    LET S == {vec[k] : k \in DOMAIN vec}
    IN  IF "nan" \in S THEN "nan"
        ELSE IF "inf" \in S THEN "inf"
        ELSE IF "pos" \in S THEN "pos"
        ELSE IF "fin" \in S THEN "fin"
        ELSE "zero"

\* np.divide(v, m) on one sample: 0/0, inf/inf and anything with nan are nan,
\* finite/inf is 0; numpy warns and does not raise.
NpDivide(v, m) ==
    IF v = "nan" \/ m = "nan" THEN "nan"
    ELSE IF m = "zero" THEN (IF v = "zero" THEN "nan" ELSE "inf")
    ELSE IF m = "inf" THEN (IF v = "inf" THEN "nan" ELSE "zero")
    ELSE v

\* Lines 143-157: the unscaled double-gamma sequence, sampled at 0..N-1.
HrfUnscaled(varNumVol, varTr) ==
    LET vecX == [k \in 1..varNumVol |-> k - 1]
        vecHrfPeak == [k \in 1..varNumVol |-> GammaPdf(vecX[k], HrfPeakNum, varTr)]
        vecHrfUndr == [k \in 1..varNumVol |-> GammaPdf(vecX[k], HrfUndrNum, varTr)]
    IN  [k \in 1..varNumVol |-> HrfCombine(vecX[k], vecHrfPeak[k], vecHrfUndr[k])]

\* funcHrf: [raised, vec]. 6.0 / varTr raises ZeroDivisionError for varTr = 0
\* (a Python number), np.max raises ValueError on an empty array; nothing
\* else raises.
funcHrf(varNumVol, varTr) ==
    IF varTr = 0 \/ varNumVol = 0 THEN [raised |-> TRUE, vec |-> <<>>]
    ELSE LET vecHrf0 == HrfUnscaled(varNumVol, varTr)
         IN  [raised |-> FALSE,
              vec |-> [k \in 1..varNumVol |-> NpDivide(vecHrf0[k], NpMax(vecHrf0))]]

HrfInputs == [N : 0..(MaxVol + 2), tr : (-MaxTr)..MaxTr]

NoHrf == [called |-> FALSE, raised |-> FALSE, vec |-> <<>>]
HrfIdle == hIn = [N |-> -1, tr |-> 0] /\ hOut = NoHrf

HrfInit == hIn \in HrfInputs /\ hOut = NoHrf

HrfCall ==
    /\ hIn.N >= 0
    /\ ~hOut.called
    /\ hOut' = [called |-> TRUE, raised |-> funcHrf(hIn.N, hIn.tr).raised,
                vec |-> funcHrf(hIn.N, hIn.tr).vec]
    /\ UNCHANGED <<hIn, gaussVars, convVars, prfVars>>

\* -------------------------------------------------------------- funcConvPar
\* np.concatenate((a, b)): a new array, a's elements followed by b's.
NpConcatenate(a, b) == a \o b

\* np.convolve(a, v, mode='full'): sample n (from 1) is the sum of
\* a[m] * v[n - m + 1] over the m where both exist; Len(a) + Len(v) - 1 samples.
NpConvolveFull(a, v) ==
    [n \in 1..(Len(a) + Len(v) - 1) |->
        SumRange([m \in 1..Len(a) |->
                     IF n - m + 1 \in 1..Len(v) THEN a[m] * v[n - m + 1] ELSE 0],
                 Max(1, n - Len(v) + 1), Min(n, Len(a)))]

\* x[0:n] of an array of length len (n >= 0).
SliceTo(x, len, n) == [t \in 1..Min(n, len) |-> x[t]]

\* The value a local name stands for: the caller's array while the name is
\* still bound to the argument, the worker's own array afterwards.
Deref(binding, callerAry) == IF binding.own THEN binding.val ELSE callerAry

\* Line 187, vecHrf = np.concatenate((vecHrf, vecZeros)): the name vecHrf is
\* bound to the new array; the array it was bound to is left as it was.
PadHrfInPlace(callerAry, binding, vecZeros) ==
    IF binding.own
    THEN [caller |-> callerAry,
          binding |-> [own |-> TRUE, val |-> NpConcatenate(binding.val, vecZeros)]]
    ELSE [caller |-> NpConcatenate(callerAry, vecZeros), binding |-> binding]
PadHrf(callerAry, binding, vecZeros) ==
    [caller |-> callerAry,
     binding |-> [own |-> TRUE,
                  val |-> NpConcatenate(Deref(binding, callerAry), vecZeros)]]

\* Lines 190-192, aryPixConv[idxPix, :] = np.convolve(...)[0:varNumVol]: the
\* slice has min(varNumVol, length of the convolution) samples; numpy assigns
\* it to the row of rowLen samples when the lengths agree or the slice has
\* one sample (broadcast), and raises ValueError otherwise.
ConvolveNoFlip(vecDm, vecHrfPad, varNumVol, rowLen) ==
    LET len == Min(varNumVol, Len(vecDm) + Len(vecHrfPad) - 1)
        corr == [n \in 1..len |->
                    SumRange([m \in 1..Len(vecDm) |->
                                 IF m + n - 1 \in 1..Len(vecHrfPad)
                                 THEN vecDm[m] * vecHrfPad[m + n - 1] ELSE 0],
                             1, Len(vecDm))]
    IN  IF len = rowLen THEN [ok |-> TRUE, row |-> corr]
        ELSE IF len = 1 THEN [ok |-> TRUE, row |-> [t \in 1..rowLen |-> corr[1]]]
        ELSE [ok |-> FALSE, row |-> <<>>]
ConvolveRow(vecDm, vecHrfPad, varNumVol, rowLen) ==
    LET len == Len(vecDm) + Len(vecHrfPad) - 1
        conv == SliceTo(NpConvolveFull(vecDm, vecHrfPad), len, varNumVol)
    IN  IF Min(varNumVol, len) = rowLen
        THEN [ok |-> TRUE, row |-> conv]
        ELSE IF Min(varNumVol, len) = 1
        THEN [ok |-> TRUE, row |-> [t \in 1..rowLen |-> conv[1]]]
        ELSE [ok |-> FALSE, row |-> <<>>]

\* Lines 196-199: lstOut = [idxPrc, aryPixConv].
LstOutUntagged(idxPrc, ary) == <<0, ary>>
LstOut(idxPrc, ary) == <<idxPrc, ary>>

\* The contiguous non-empty chunks of 1..n, in order, as <<first, last>>.
RECURSIVE Chunkings(_, _)
Chunkings(lo, n) ==
    IF lo > n THEN {<<>>}
    ELSE UNION {{<<<<lo, hi>>>> \o rest : rest \in Chunkings(hi + 1, n)} : hi \in lo..n}

\* Stimulus rows of len samples: no stimulus, a ramp, an onset impulse.
PngRow(kind, len) ==
    [t \in 1..len |-> CASE kind = 0 -> 0
                        [] kind = 1 -> t
                        [] OTHER -> IF t = 1 THEN 1 ELSE 0]

\* HRF sequences handed to the worker: a rise, or a peak with an undershoot.
HrfSeq(kind, len) ==
    [k \in 1..len |-> IF kind = 0 THEN k + 1 ELSE IF k % 2 = 1 THEN 3 ELSE -1]

WorkersC == DOMAIN chnkC
ChunkOfC(c) == SubSeq(aryPngData, chnkC[c][1], chnkC[c][2])
NoBinding == [own |-> FALSE, val |-> <<>>]
NoConvAll == [done |-> FALSE, ary |-> <<>>]

ConvIdle ==
    /\ aryPngData = <<>> /\ vecHrfArg = <<>> /\ varNumVolC = 0 /\ chnkC = <<>>
    /\ pcC = <<>> /\ idxPix = <<>> /\ vecHrf = <<>> /\ aryPixConv = <<>>
    /\ queOutC = <<>> /\ lstConv = <<>> /\ aryConvAll = NoConvAll

ConvInit ==
    /\ \E P \in 1..MaxPix, L \in 1..MaxVol, off \in 0..2 :
          aryPngData = [p \in 1..P |-> PngRow((p + off) % 3, L)]
    /\ \E kind \in 0..1, len \in 1..MaxVol : vecHrfArg = HrfSeq(kind, len)
    /\ varNumVolC \in 1..MaxVol
    /\ chnkC \in Chunkings(1, Len(aryPngData))
    /\ pcC = [c \in DOMAIN chnkC |-> "alloc"]
    /\ idxPix = [c \in DOMAIN chnkC |-> 0]
    /\ vecHrf = [c \in DOMAIN chnkC |-> NoBinding]
    /\ aryPixConv = [c \in DOMAIN chnkC |-> <<>>]
    /\ queOutC = <<>> /\ lstConv = <<>> /\ aryConvAll = NoConvAll

\* Line 172: aryPixConv = np.zeros(np.shape(aryPngData)).
ConvAlloc(c) ==
    /\ pcC[c] = "alloc"
    /\ aryPixConv' = [aryPixConv EXCEPT ![c] =
                         [p \in 1..Len(ChunkOfC(c)) |-> Zeros(Len(ChunkOfC(c)[p]))]]
    /\ pcC' = [pcC EXCEPT ![c] = "loop"]
    /\ UNCHANGED <<aryPngData, vecHrfArg, varNumVolC, chnkC, idxPix, vecHrf,
                   queOutC, lstConv, aryConvAll, gaussVars, hrfVars, prfVars>>

\* Lines 177-192: one iteration of the loop over the chunk's pixels.
ConvIter(c) ==
    /\ pcC[c] = "loop"
    /\ LET p == idxPix[c] + 1
           vecZeros == Zeros(PadLen)
           vecDm == NpConcatenate(ChunkOfC(c)[p], vecZeros)
           pad == PadHrf(vecHrfArg, vecHrf[c], vecZeros)
           res == ConvolveRow(vecDm, pad.binding.val, varNumVolC,
                              Len(aryPixConv[c][p]))
       IN  /\ vecHrfArg' = pad.caller
           /\ vecHrf' = [vecHrf EXCEPT ![c] = pad.binding]
           /\ idxPix' = [idxPix EXCEPT ![c] = p]
           /\ IF res.ok
              THEN /\ aryPixConv' = [aryPixConv EXCEPT ![c][p] = res.row]
                   /\ pcC' = [pcC EXCEPT ![c] =
                                 IF p = Len(ChunkOfC(c)) THEN "put" ELSE "loop"]
              ELSE /\ aryPixConv' = aryPixConv
                   /\ pcC' = [pcC EXCEPT ![c] = "failed"]
    /\ UNCHANGED <<aryPngData, varNumVolC, chnkC, queOutC, lstConv, aryConvAll,
                   gaussVars, hrfVars, prfVars>>

\* Lines 196-199: queOut.put([idxPrc, aryPixConv]); idxPrc is c - 1.
ConvPut(c) ==
    /\ pcC[c] = "put"
    /\ queOutC' = Append(queOutC, LstOut(c - 1, aryPixConv[c]))
    /\ pcC' = [pcC EXCEPT ![c] = "done"]
    /\ UNCHANGED <<aryPngData, vecHrfArg, varNumVolC, chnkC, idxPix, vecHrf,
                   aryPixConv, lstConv, aryConvAll, gaussVars, hrfVars, prfVars>>

\* funcConvPar run to its end on one array, as a function: the rows it emits,
\* or ok = FALSE when an iteration raises.
RECURSIVE ConvParRows(_, _, _, _, _)
ConvParRows(png, binding, callerAry, varNumVol, p) ==
    IF p > Len(png) THEN [ok |-> TRUE, ary |-> <<>>]
    ELSE LET vecZeros == Zeros(PadLen)
             pad == PadHrf(callerAry, binding, vecZeros)
             res == ConvolveRow(NpConcatenate(png[p], vecZeros), pad.binding.val,
                                varNumVol, Len(png[p]))
             rest == ConvParRows(png, pad.binding, pad.caller, varNumVol, p + 1)
         IN  IF res.ok /\ rest.ok
             THEN [ok |-> TRUE, ary |-> <<res.row>> \o rest.ary]
             ELSE [ok |-> FALSE, ary |-> <<>>]

\* The coordinator of the convolution stage: one queOut.get() per chunk, then
\* the items ordered by their idxPrc and their arrays concatenated.
RECURSIVE InsertByKey(_, _)
InsertByKey(sorted, item) ==
    IF sorted = <<>> THEN <<item>>
    ELSE IF item[1] < Head(sorted)[1] THEN <<item>> \o sorted
    ELSE <<Head(sorted)>> \o InsertByKey(Tail(sorted), item)

RECURSIVE SortByKey(_)
SortByKey(items) ==
    IF items = <<>> THEN <<>>
    ELSE InsertByKey(SortByKey(SubSeq(items, 1, Len(items) - 1)), items[Len(items)])

RECURSIVE ConcatArrays(_)
ConcatArrays(items) ==
    IF items = <<>> THEN <<>> ELSE Head(items)[2] \o ConcatArrays(Tail(items))

CoordGetC ==
    /\ Len(lstConv) < Len(chnkC)
    /\ queOutC # <<>>
    /\ lstConv' = Append(lstConv, Head(queOutC))
    /\ queOutC' = Tail(queOutC)
    /\ UNCHANGED <<aryPngData, vecHrfArg, varNumVolC, chnkC, pcC, idxPix, vecHrf,
                   aryPixConv, aryConvAll, gaussVars, hrfVars, prfVars>>

CoordJoinC ==
    /\ chnkC # <<>>
    /\ Len(lstConv) = Len(chnkC)
    /\ ~aryConvAll.done
    /\ aryConvAll' = [done |-> TRUE, ary |-> ConcatArrays(SortByKey(lstConv))]
    /\ UNCHANGED <<aryPngData, vecHrfArg, varNumVolC, chnkC, pcC, idxPix, vecHrf,
                   aryPixConv, queOutC, lstConv, gaussVars, hrfVars, prfVars>>

ConvNext ==
    \/ \E c \in WorkersC : ConvAlloc(c)
    \/ \E c \in WorkersC : ConvIter(c)
    \/ \E c \in WorkersC : ConvPut(c)
    \/ CoordGetC
    \/ CoordJoinC

\* ---------------------------------------------------------------- funcPrfTc
\* np.around(v, 0) of v = t / Resolution: to the nearest integer, a tie to the
\* even one.
Around(t) ==
    LET q == t \div Resolution
        r == t % Resolution
    IN  IF 2 * r < Resolution THEN q
        ELSE IF 2 * r > Resolution THEN q + 1
        ELSE IF q % 2 = 0 THEN q ELSE q + 1

\* A time course sample, the sum over the grid of stimulus * Gaussian cell:
\* nan when the Gaussian is nan, else the stimulus mass gathered per distance
\* numerator: the sum over <<num, s>> in coef of s * exp(-num/den)/(pi*den).
ZeroTc == [nan |-> FALSE, den |-> 1, coef |-> {}]

\* Lines 229-234: np.sum(np.multiply(aryPngDataHigh, aryGauss[:, :, None]),
\* axis=(0, 1)), sample t.
PrfSample(png, aryGauss, t) ==
    LET cells == {<<i, j>> : i \in DOMAIN aryGauss, j \in DOMAIN aryGauss[0]}
        nums == {aryGauss[c[1]][c[2]].num : c \in cells}
        mass(d) == SumSet([c \in cells |-> png[c[1]][c[2]][t]],
                          {c \in cells : aryGauss[c[1]][c[2]].num = d})
    IN  IF \E c \in cells : aryGauss[c[1]][c[2]].nan
        THEN [nan |-> TRUE, den |-> 0, coef |-> {}]
        ELSE [nan |-> FALSE, den |-> aryGauss[0][0].den,
              coef |-> {<<d, mass(d)>> : d \in nums}]

\* Lines 217-245 for one row of the chunk: the rounded parameters, the
\* Gaussian, the time course, and its assignment to the row of varNumVol
\* samples (numpy broadcasts a single sample, raises on any other length).
PrfRow(mdl, tplSze, varNumVol, png, numVolPng) ==
    LET varTmpX == Around(mdl[2])
        varTmpY == Around(mdl[3])
        varTmpSd == Around(mdl[4])
        aryGauss == funcGauss(tplSze[1], tplSze[2], varTmpX, varTmpY, varTmpSd)
        aryPrfTcTmp == [t \in 1..numVolPng |-> PrfSample(png, aryGauss, t)]
    IN  IF numVolPng = varNumVol THEN [ok |-> TRUE, row |-> aryPrfTcTmp]
        ELSE IF numVolPng = 1
        THEN [ok |-> TRUE, row |-> [t \in 1..varNumVol |-> aryPrfTcTmp[1]]]
        ELSE [ok |-> FALSE, row |-> <<>>]

\* Lines 250-251: np.hstack((np.array(aryMdlParamsChnk[:, 0], ndmin=2).T,
\* aryOut)): the chunk's index column in front of the time courses.
HStackLoopIndex(aryMdlParamsChnk, ary) ==
    [m \in 1..Len(ary) |-> <<m - 1>> \o ary[m]]
HStackIndex(aryMdlParamsChnk, ary) ==
    [m \in 1..Len(ary) |-> <<aryMdlParamsChnk[m][1]>> \o ary[m]]

\* Candidate (x, y, sd) of a parameter combination, in 1/Resolution units;
\* the grid's rows are taken from this pool in order, from some offset.
ParamPool ==
    <<<<0, 10, 10>>, <<5, 0, 3>>, <<15, 10, 5>>, <<10, 5, 15>>, <<10, 10, 25>>>>

MdlGrid(K, off) ==
    [k \in 1..K |-> <<k - 1>> \o ParamPool[((k - 1 + off) % Len(ParamPool)) + 1]]

\* The super-sampled stimulus, [W, H, volumes].
PngHigh(kind, tplSze, numVol) ==
    [i \in 0..(tplSze[1] - 1) |-> [j \in 0..(tplSze[2] - 1) |->
        [t \in 1..numVol |-> IF kind = 0 THEN i + 2 * j + t
                             ELSE IF t = 1 THEN 1 ELSE 0]]]

WorkersP == DOMAIN chnkP
ChunkOfP(c) == SubSeq(aryMdlParams, chnkP[c][1], chnkP[c][2])
NumVolPng == Len(aryPngDataHigh[0][0])
NoPrfAll == [done |-> FALSE, ary |-> <<>>]

PrfIdle ==
    /\ aryMdlParams = <<>> /\ tplVslSpcHighSze = <<0, 0>> /\ varNumVolP = 0
    /\ aryPngDataHigh = <<>> /\ chnkP = <<>> /\ pcP = <<>> /\ idxMdl = <<>>
    /\ aryOut = <<>> /\ queOutP = <<>> /\ lstPrfTc = <<>> /\ aryPrfTc = NoPrfAll

PrfInit ==
    /\ \E K \in 1..MaxMdl, off \in 0..(Len(ParamPool) - 1) :
          aryMdlParams = MdlGrid(K, off)
    /\ tplVslSpcHighSze \in {<<1, 2>>, <<2, 2>>}
    /\ varNumVolP \in 1..MaxVol
    /\ \E kind \in 0..1, T \in 1..MaxVol :
          aryPngDataHigh = PngHigh(kind, tplVslSpcHighSze, T)
    /\ chnkP \in Chunkings(1, Len(aryMdlParams))
    /\ pcP = [c \in DOMAIN chnkP |-> "alloc"]
    /\ idxMdl = [c \in DOMAIN chnkP |-> 0]
    /\ aryOut = [c \in DOMAIN chnkP |-> <<>>]
    /\ queOutP = <<>> /\ lstPrfTc = <<>> /\ aryPrfTc = NoPrfAll

\* Lines 206-209: aryOut = np.zeros([varChnkSze, varNumVol]).
PrfAlloc(c) ==
    /\ pcP[c] = "alloc"
    /\ aryOut' = [aryOut EXCEPT ![c] =
                     [m \in 1..Len(ChunkOfP(c)) |-> [t \in 1..varNumVolP |-> ZeroTc]]]
    /\ pcP' = [pcP EXCEPT ![c] = "loop"]
    /\ UNCHANGED <<aryMdlParams, tplVslSpcHighSze, varNumVolP, aryPngDataHigh,
                   chnkP, idxMdl, queOutP, lstPrfTc, aryPrfTc,
                   gaussVars, hrfVars, convVars>>

\* Lines 212-245: one iteration of the loop over the chunk's combinations.
PrfIter(c) ==
    /\ pcP[c] = "loop"
    /\ LET m == idxMdl[c] + 1
           res == PrfRow(ChunkOfP(c)[m], tplVslSpcHighSze, varNumVolP,
                         aryPngDataHigh, NumVolPng)
       IN  /\ idxMdl' = [idxMdl EXCEPT ![c] = m]
           /\ IF res.ok
              THEN /\ aryOut' = [aryOut EXCEPT ![c][m] = res.row]
                   /\ pcP' = [pcP EXCEPT ![c] =
                                 IF m = Len(ChunkOfP(c)) THEN "put" ELSE "loop"]
              ELSE /\ aryOut' = aryOut
                   /\ pcP' = [pcP EXCEPT ![c] = "failed"]
    /\ UNCHANGED <<aryMdlParams, tplVslSpcHighSze, varNumVolP, aryPngDataHigh,
                   chnkP, queOutP, lstPrfTc, aryPrfTc,
                   gaussVars, hrfVars, convVars>>

\* Lines 250-254: the index column is stacked in front, queOut.put(aryOut).
PrfPut(c) ==
    /\ pcP[c] = "put"
    /\ aryOut' = [aryOut EXCEPT ![c] = HStackIndex(ChunkOfP(c), aryOut[c])]
    /\ queOutP' = Append(queOutP, aryOut'[c])
    /\ pcP' = [pcP EXCEPT ![c] = "done"]
    /\ UNCHANGED <<aryMdlParams, tplVslSpcHighSze, varNumVolP, aryPngDataHigh,
                   chnkP, idxMdl, lstPrfTc, aryPrfTc,
                   gaussVars, hrfVars, convVars>>

\* The coordinator of the time course stage: one queOut.get() per chunk, then
\* the arrays concatenated and the rows sorted by column 0.
RECURSIVE VStack(_)
VStack(arys) == IF arys = <<>> THEN <<>> ELSE Head(arys) \o VStack(Tail(arys))

CoordGetP ==
    /\ Len(lstPrfTc) < Len(chnkP)
    /\ queOutP # <<>>
    /\ lstPrfTc' = Append(lstPrfTc, Head(queOutP))
    /\ queOutP' = Tail(queOutP)
    /\ UNCHANGED <<aryMdlParams, tplVslSpcHighSze, varNumVolP, aryPngDataHigh,
                   chnkP, pcP, idxMdl, aryOut, aryPrfTc,
                   gaussVars, hrfVars, convVars>>

CoordJoinP ==
    /\ chnkP # <<>>
    /\ Len(lstPrfTc) = Len(chnkP)
    /\ ~aryPrfTc.done
    /\ aryPrfTc' = [done |-> TRUE, ary |-> SortByKey(VStack(lstPrfTc))]
    /\ UNCHANGED <<aryMdlParams, tplVslSpcHighSze, varNumVolP, aryPngDataHigh,
                   chnkP, pcP, idxMdl, aryOut, queOutP, lstPrfTc,
                   gaussVars, hrfVars, convVars>>

PrfNext ==
    \/ \E c \in WorkersP : PrfAlloc(c)
    \/ \E c \in WorkersP : PrfIter(c)
    \/ \E c \in WorkersP : PrfPut(c)
    \/ CoordGetP
    \/ CoordJoinP

\* ----------------------------------------------------------- specifications
\* One call of funcGauss.
InitGauss == GaussInit /\ HrfIdle /\ ConvIdle /\ PrfIdle
SpecGauss == InitGauss /\ [][GaussCall]_vars

\* One call of funcHrf.
InitHrf == HrfInit /\ GaussIdle /\ ConvIdle /\ PrfIdle
SpecHrf == InitHrf /\ [][HrfCall]_vars

\* The convolution stage: funcConvPar workers and their coordinator.
InitConv == ConvInit /\ GaussIdle /\ HrfIdle /\ PrfIdle
SpecConv == InitConv /\ [][ConvNext]_vars

\* The time course stage: funcPrfTc workers and their coordinator.
InitPrf == PrfInit /\ GaussIdle /\ HrfIdle /\ ConvIdle
SpecPrf == InitPrf /\ [][PrfNext]_vars

\* Either stage.
Init == InitConv \/ InitPrf
Next == ConvNext \/ PrfNext
Spec == Init /\ [][Next]_vars

\* ------------------------------------------------------------------- claims
\* The items of the convolution stage that left a worker, received or not.
ItemsC == lstConv \o queOutC
ItemsP == lstPrfTc \o queOutP
TerminatedC == {c \in WorkersC : pcC[c] \in {"done", "failed"}}
TerminatedP == {c \in WorkersP : pcP[c] \in {"done", "failed"}}

\* C1: index round trip. Once the coordinator has taken one queue item per
\* chunk, concatenated them and sorted the rows by column 0, the result has
\* exactly K rows, row k carries index k-1 and the time course of the grid's
\* row k, and every row has 1 + varNumVol columns, whatever the chunking and
\* the order in which the workers put their results.
C1_IndexRoundTrip ==
    aryPrfTc.done =>
        /\ Len(aryPrfTc.ary) = Len(aryMdlParams)
        /\ \A k \in 1..Len(aryMdlParams) :
              /\ aryPrfTc.ary[k][1] = k - 1
              /\ aryPrfTc.ary[k][1] = aryMdlParams[k][1]
              /\ Len(aryPrfTc.ary[k]) = 1 + varNumVolP
              /\ Tail(aryPrfTc.ary[k]) =
                    PrfRow(aryMdlParams[k], tplVslSpcHighSze, varNumVolP,
                           aryPngDataHigh, NumVolPng).row

\* C1 witness: three chunks reassembled although the last chunk's result was
\* received first.
C1_Witness ==
    /\ aryPrfTc.done
    /\ Len(chnkP) = 3
    /\ lstPrfTc[1][1][1] = 2
    /\ lstPrfTc[3][1][1] = 0

\* C2: convolution length invariance. No funcConvPar invocation fails and
\* every row of every emitted array has varNumVol samples, whatever the
\* stimulus length.
C2_ConvLengthInvariance ==
    /\ \A c \in WorkersC : pcC[c] # "failed"
    /\ \A n \in 1..Len(ItemsC) : \A p \in 1..Len(ItemsC[n][2]) :
          Len(ItemsC[n][2][p]) = varNumVolC

\* C3: in every iteration of a funcConvPar invocation the HRF operand of the
\* convolution is the HRF given as argument followed by exactly 100 zeros.
C3_HrfOperandFresh ==
    \A c \in WorkersC :
        vecHrf[c].own => vecHrf[c].val = vecHrfArg \o Zeros(PadLen)

\* C4: funcGauss(W, H, x, y, sd) has shape W x H, cell (i, j) has the
\* squared-distance numerator (i-x)^2 + (j-y)^2, and with (x, y) inside the
\* grid the cell (x, y) is the unique maximum.
C4_GaussCell ==
    gOut # NoGauss =>
        LET a == gOut[1] IN
        /\ DOMAIN a = 0..(gIn.W - 1)
        /\ \A i \in DOMAIN a :
              /\ DOMAIN a[i] = 0..(gIn.H - 1)
              /\ \A j \in DOMAIN a[i] :
                    a[i][j].num = Square(i - gIn.x) + Square(j - gIn.y)
        /\ (gIn.x \in 0..(gIn.W - 1) /\ gIn.y \in 0..(gIn.H - 1)) =>
              \A i \in DOMAIN a : \A j \in DOMAIN a[i] :
                  <<i, j>> # <<gIn.x, gIn.y>> => a[i][j].num > a[gIn.x][gIn.y].num

\* C5: a worker that fails delivers an item for its chunk all the same, so
\* every terminated worker has put one item, and the coordinator is never
\* left waiting with all workers terminated and the queue empty.
C5_FailureSurfaced ==
    /\ \A c \in WorkersC :
          pcC[c] = "failed" => \E n \in 1..Len(ItemsC) : ItemsC[n][1] = c - 1
    /\ Len(ItemsP) = Cardinality(TerminatedP)
    /\ (TerminatedC = WorkersC /\ queOutC = <<>>) => Len(lstConv) = Len(chnkC)
    /\ (TerminatedP = WorkersP /\ queOutP = <<>>) => Len(lstPrfTc) = Len(chnkP)

\* C6: each funcConvPar invocation that completes has put exactly one item
\* [idxPrc, aryPixConv] with one row per pixel of its chunk, one that has not
\* completed has put none, and the items ordered by idxPrc and concatenated
\* equal the result of one invocation on the whole pixel set.
C6_ChunkedEqualsWhole ==
    /\ \A c \in WorkersC :
          LET mine == {n \in 1..Len(ItemsC) : ItemsC[n][1] = c - 1} IN
          /\ Cardinality(mine) = IF pcC[c] = "done" THEN 1 ELSE 0
          /\ \A n \in mine : Len(ItemsC[n][2]) = chnkC[c][2] - chnkC[c][1] + 1
    /\ aryConvAll.done =>
          LET whole == ConvParRows(aryPngData, NoBinding, vecHrfArg, varNumVolC, 1)
          IN  whole.ok /\ aryConvAll.ary = whole.ary

\* C6 witness: three chunks with different rows, joined although the last
\* chunk's item was received first.
C6_Witness ==
    /\ aryConvAll.done
    /\ Len(chnkC) = 3
    /\ lstConv[1][1] = 2
    /\ lstConv[3][1] = 0
    /\ aryConvAll.ary[1] # aryConvAll.ary[3]

\* C7: funcHrf raises whenever varTr <= 0 or the maximum of the unscaled
\* sequence is zero or not finite, and never returns a sequence holding a nan
\* or an infinite sample.
C7_HrfFailsOnDegenerate ==
    hOut.called =>
        /\ hIn.tr <= 0 => hOut.raised
        /\ (hIn.tr # 0 /\ hIn.N > 0
              /\ NpMax(HrfUnscaled(hIn.N, hIn.tr)) \in {"zero", "nan", "inf"})
              => hOut.raised
        /\ ~hOut.raised =>
              \A k \in 1..Len(hOut.vec) : hOut.vec[k] \notin {"nan", "inf"}

\* C8: no step of any funcConvPar or funcPrfTc invocation changes the
\* caller's stimulus arrays, HRF sequence or parameter grid.
C8_InputsUnchanged ==
    [][/\ aryPngData' = aryPngData
       /\ vecHrfArg' = vecHrfArg
       /\ aryMdlParams' = aryMdlParams
       /\ aryPngDataHigh' = aryPngDataHigh]_vars

\* C8 witness: two workers have padded their HRF, one of them more than
\* once, and both have put their results.
C8_Witness ==
    /\ Len(chnkC) = 2
    /\ \A c \in WorkersC : pcC[c] = "done" /\ vecHrf[c].own
    /\ \E c \in WorkersC : Len(vecHrf[c].val) > Len(vecHrfArg) + PadLen
    /\ Len(ItemsC) = 2

\* C9: with stimulus rows of varNumVol samples, every row that funcConvPar
\* has computed holds the first varNumVol samples of the convolution of the
\* unpadded stimulus row with the unpadded HRF:
\* out[t] = sum over k <= t of stim[k] * hrf[t - k], beyond the HRF counted 0.
C9_FirstSamples ==
    \A c \in WorkersC :
        pcC[c] # "alloc" =>
        \A p \in 1..idxPix[c] :
            LET stim == ChunkOfC(c)[p]
                direct == [t \in 1..varNumVolC |->
                              SumRange([k \in 1..Len(stim) |->
                                           IF t - k + 1 \in 1..Len(vecHrfArg)
                                           THEN stim[k] * vecHrfArg[t - k + 1]
                                           ELSE 0],
                                       1, t)]
            IN  Len(stim) = varNumVolC => aryPixConv[c][p] = direct

\* C9 witness: a worker has convolved a second, non-zero row of two or more
\* samples with an HRF of two or more samples.
C9_Witness ==
    \E c \in WorkersC :
        /\ pcC[c] = "put"
        /\ idxPix[c] >= 2
        /\ varNumVolC >= 2
        /\ Len(vecHrfArg) >= 2
        /\ Len(ChunkOfC(c)[2]) = varNumVolC
        /\ \A t \in 1..varNumVolC : aryPixConv[c][2][t] # 0

\* C10: every row with a strictly positive standard deviation is computed
\* with a strictly positive rounded standard deviation: no divisor of
\* funcGauss is zero and no sample of the row's time course is nan.
C10_SdStaysPositive ==
    \A c \in WorkersP :
        pcP[c] \in {"loop", "put"} =>
        \A m \in 1..idxMdl[c] :
            ChunkOfP(c)[m][4] > 0 =>
                /\ Around(ChunkOfP(c)[m][4]) > 0
                /\ \A t \in 1..varNumVolP :
                      ~aryOut[c][m][t].nan /\ aryOut[c][m][t].den # 0

====
